---- MODULE Spec2Model ----
(***************************************************************************)
(* A model of codectl: the JSON-Schema reference resolver                  *)
(* (codectl/schema.py) executed as a stack machine over a heap of mutable  *)
(* dicts and lists, and the output-file handling of the template compiler  *)
(* (codectl/compiler.py).                                                  *)
(***************************************************************************)
EXTENDS Integers, Sequences, FiniteSets, TLC

VARIABLES
    files,      \* the schema files on disk: path -> parsed text, or NoFile
    heap,       \* the Python objects (dicts and lists) created so far
    stack,      \* the active _resolve_refs calls, innermost last
    rstack,     \* the RefResolver of each active resolve_all_refs call
    status,     \* where recursive_resolve is: start, running, returned, failed, overflow
    err,        \* the exception that ended the call, "" when none
    result,     \* the value recursive_resolve returned
    loaded,     \* the sequence of paths read from disk through a $ref
    lastRes,    \* what the most recent resolver.resolving(...) looked up and got
    missed,     \* whether a $ref met so far named something its document lacks
    input,      \* the root document as it was parsed, before any mutation
    refs,       \* the reference graph of the documents on disk: cyclic, dangling
    mlog,       \* the merges done so far: node, and the keys both sides defined
    pass,       \* 1 in the first resolve call, 2 when its output is resolved again
    firstOut,   \* the document the first resolve call returned
    outFiles,   \* the output directory: path -> nothing, a directory or a file
    notices,    \* the files named by the notices process_file has printed
    lastCall,   \* the arguments and outcome of the most recent process_file call
    firstWrite, \* per output path, the file it first held
    lastBatch,  \* the arguments and outcome of the most recent process_files call
    configFile, \* the user's configuration file: nothing, or the mapping it stores
    disk,       \* the directories made and the template files copied by "new"
    cli         \* the command line invocation under way, or the last one

vars == <<files, heap, stack, rstack, status, err, result, loaded, lastRes,
          missed, input, refs, mlog, pass, firstOut, outFiles, notices, lastCall,
          firstWrite, lastBatch, configFile, disk, cli>>

resolverVars == <<files, heap, stack, rstack, status, err, result, loaded,
                  lastRes, missed, input, refs, mlog, pass, firstOut>>

cliVars == <<configFile, disk, cli>>

compilerVars == <<outFiles, notices, lastCall, firstWrite, lastBatch, configFile,
                  disk, cli>>

(***************************************************************************)
(* Bounds of the model.                                                    *)
(***************************************************************************)
\* How many resolve_all_refs calls may be nested before the model stops
\* following an unbounded recursion.
MaxNest == 4

\* How many process_file calls one run of the compiler model makes.
MaxCalls == 3

\* The number of command line invocations in a behaviour.
MaxCmds == 3

\* The number of -i items of one invocation.
MaxItems == 2

(***************************************************************************)
(* Values.  A Python value is a scalar string, a "$ref" pointer string     *)
(* (kept split into its document part and its fragment path), or a         *)
(* reference to a dict or a list on the heap.                              *)
(***************************************************************************)
Str(s) == [k |-> "str", s |-> s]
Ptr(d, f) == [k |-> "ptr", doc |-> d, frag |-> f]
Obj(i) == [k |-> "obj", id |-> i]
None == [k |-> "none"]

\* F applied to the value of v, with v evaluated once.
Bind(v, F(_)) == CHOOSE y \in {F(r) : r \in {v}} : TRUE

IsObj(v) == v.k = "obj"
IsDict(h, v) == v.k = "obj" /\ h[v.id].t = "dict"
IsList(h, v) == v.k = "obj" /\ h[v.id].t = "list"

(***************************************************************************)
(* Parsed JSON text: an immutable tree.  A dict is a sequence of           *)
(* [key, v] entries in the order of the text; a list is a sequence of      *)
(* entries whose key is "".                                                *)
(***************************************************************************)
TStr(s) == [t |-> "str", s |-> s]
TPtr(d, f) == [t |-> "ptr", doc |-> d, frag |-> f]
TDict(es) == [t |-> "dict", e |-> es]
TList(items) == [t |-> "list", e |-> [i \in 1..Len(items) |-> [key |-> "", v |-> items[i]]]]
E(key, v) == [key |-> key, v |-> v]
NoFile == [t |-> "nofile"]

IsLeaf(t) == t.t \in {"str", "ptr"}

\* json.loads: every dict and list of the text becomes a new heap object.
RECURSIVE json_loads(_, _)
RECURSIVE LoadEntries(_, _, _)
LoadEntries(h, es, acc) ==
    IF es = <<>> THEN [h |-> h, e |-> acc]
    ELSE Bind(json_loads(h, Head(es).v),
              LAMBDA r : LoadEntries(r.h, Tail(es),
                                     Append(acc, [key |-> Head(es).key, v |-> r.v])))

json_loads(h, t) ==
    IF t.t = "str" THEN [h |-> h, v |-> Str(t.s)]
    ELSE IF t.t = "ptr" THEN [h |-> h, v |-> Ptr(t.doc, t.frag)]
    ELSE Bind(LoadEntries(h, t.e, <<>>),
              LAMBDA r : [h |-> Append(r.h, [t |-> t.t, e |-> r.e]),
                          v |-> Obj(Len(r.h) + 1)])

\* The document a value stands for, read off the heap (what == compares).
RECURSIVE ToTree(_, _)
ToTree(h, v) ==
    IF v.k = "str" THEN TStr(v.s)
    ELSE IF v.k = "ptr" THEN TPtr(v.doc, v.frag)
    ELSE IF v.k = "none" THEN NoFile
    ELSE [t |-> h[v.id].t,
          e |-> [i \in 1..Len(h[v.id].e) |->
                    [key |-> h[v.id].e[i].key, v |-> ToTree(h, h[v.id].e[i].v)]]]

(***************************************************************************)
(* Dict operations on entry sequences.                                     *)
(***************************************************************************)
KeyIndex(es, key) ==
    IF \E i \in 1..Len(es) : es[i].key = key
    THEN CHOOSE i \in 1..Len(es) : es[i].key = key
    ELSE 0

HasKey(es, key) == KeyIndex(es, key) # 0

GetKey(es, key) == es[KeyIndex(es, key)].v

\* base[key] = v : an existing key keeps its place, a new key goes last.
SetKey(es, key, v) ==
    IF HasKey(es, key)
    THEN [es EXCEPT ![KeyIndex(es, key)] = [key |-> key, v |-> v]]
    ELSE Append(es, [key |-> key, v |-> v])

\* dict.pop(key)
PopKey(es, key) ==
    LET i == KeyIndex(es, key)
    IN SubSeq(es, 1, i - 1) \o SubSeq(es, i + 1, Len(es))

\* Whether a tree holds the key "$ref" at any depth.
RECURSIVE HasRef(_)
HasRef(t) ==
    IF IsLeaf(t) \/ t.t = "nofile" THEN FALSE
    ELSE \E i \in 1..Len(t.e) :
            (t.t = "dict" /\ t.e[i].key = "$ref") \/ HasRef(t.e[i].v)

(***************************************************************************)
(* deepmerge.always_merger: lists are appended into a new list, dicts are  *)
(* merged in place into base, and anything else (two scalars, or values of *)
(* different types) is overridden by nxt.                                  *)
(***************************************************************************)
RECURSIVE value_strategy(_, _, _)
RECURSIVE strategy_merge(_, _, _, _)
strategy_merge(h, b, n, i) ==
    IF i > Len(h[n].e) THEN [h |-> h, v |-> Obj(b)]
    ELSE LET ent == h[n].e[i]
         IN IF ~HasKey(h[b].e, ent.key)
            THEN strategy_merge([h EXCEPT ![b].e = Append(@, ent)], b, n, i + 1)
            ELSE Bind(value_strategy(h, GetKey(h[b].e, ent.key), ent.v),
                      LAMBDA r : strategy_merge(
                                    [r.h EXCEPT ![b].e = SetKey(@, ent.key, r.v)],
                                    b, n, i + 1))

value_strategy(h, base, nxt) ==
    IF IsList(h, base) /\ IsList(h, nxt)
    THEN [h |-> Append(h, [t |-> "list", e |-> h[base.id].e \o h[nxt.id].e]),
          v |-> Obj(Len(h) + 1)]
    ELSE IF IsDict(h, base) /\ IsDict(h, nxt)
    THEN strategy_merge(h, base.id, nxt.id, 1)
    ELSE [h |-> h, v |-> nxt]

\* always_merger.merge(base, nxt)
merge(h, base, nxt) == value_strategy(h, base, nxt)

(***************************************************************************)
(* jsonschema.RefResolver.                                                 *)
(***************************************************************************)
\* The schema file handed to recursive_resolve, and the base URI made of
\* its directory: a path with no trailing slash.
SchemaFile == <<"d", "a">>
BaseUri == SubSeq(SchemaFile, 1, Len(SchemaFile) - 1)

\* urllib.parse.urljoin(base, ref) without the fragment: a relative path
\* replaces the last segment of base; a fragment-only ref keeps base.
urljoin(base, doc) ==
    IF doc = <<>> THEN base ELSE SubSeq(base, 1, Len(base) - 1) \o doc

\* A lookup that ignores the path and yields the document itself.
resolve_fragment_root(h, document, fragment) == document

\* RefResolver.resolve_fragment: walk the path segments through nested
\* dicts; a segment that is not a key of a dict (or whose parent is a list
\* or a scalar) is an unresolvable pointer.
RECURSIVE resolve_fragment(_, _, _)
resolve_fragment(h, document, fragment) ==
    IF fragment = <<>> THEN document
    ELSE IF IsDict(h, document) /\ HasKey(h[document.id].e, Head(fragment))
    THEN resolve_fragment(h, GetKey(h[document.id].e, Head(fragment)), Tail(fragment))
    ELSE None

\* RefResolver(base_uri, referrer): the store maps base_uri to the
\* referrer; nothing is cached yet.  loc and droot are history fields: the
\* location and the root of the document the referrer was taken from.
RefResolver(base_uri, referrer, loc, droot) ==
    [base |-> base_uri,
     store |-> <<[url |-> base_uri, v |-> referrer]>>,
     cache |-> <<>>,
     loc |-> loc,
     droot |-> droot]

StoreIndex(store, url) ==
    IF \E i \in 1..Len(store) : store[i].url = url
    THEN CHOOSE i \in 1..Len(store) : store[i].url = url
    ELSE 0

CacheIndex(cache, url, frag) ==
    IF \E i \in 1..Len(cache) : cache[i].url = url /\ cache[i].frag = frag
    THEN CHOOSE i \in 1..Len(cache) : cache[i].url = url /\ cache[i].frag = frag
    ELSE 0

ReadFile(fs, url) == IF url \in DOMAIN fs THEN fs[url] ELSE NoFile

\* RefResolver.resolve(ref): the cached answer for this URL if there is
\* one; otherwise resolve_from_url: the stored document for the URL, or the
\* file read from disk (and stored), then resolve_fragment.
\* Gives [ok, v, h, r, read]: the value, the heap and the resolver after the
\* call, and whether a file was read.
resolve(fs, h, r, ref) ==
    LET url == urljoin(r.base, ref.doc)
        ci == CacheIndex(r.cache, url, ref.frag)
        si == StoreIndex(r.store, url)
    IN  IF ci # 0
        THEN [ok |-> TRUE, v |-> r.cache[ci].v, h |-> h, r |-> r, read |-> FALSE, url |-> url]
        ELSE IF si = 0 /\ ReadFile(fs, url) = NoFile
        THEN [ok |-> FALSE, v |-> None, h |-> h, r |-> r, read |-> FALSE, url |-> url]
        ELSE Bind(IF si # 0 THEN [h |-> h, v |-> r.store[si].v]
                  ELSE json_loads(h, ReadFile(fs, url)),
                  LAMBDA ld :
                    LET st == IF si # 0 THEN r.store
                              ELSE Append(r.store, [url |-> url, v |-> ld.v])
                        got == resolve_fragment(ld.h, ld.v, ref.frag)
                    IN  IF got = None
                        THEN [ok |-> FALSE, v |-> None, h |-> ld.h,
                              r |-> [r EXCEPT !.store = st], read |-> si = 0, url |-> url]
                        ELSE [ok |-> TRUE, v |-> got, h |-> ld.h,
                              r |-> [r EXCEPT !.store = st,
                                              !.cache = Append(@, [url |-> url,
                                                                   frag |-> ref.frag,
                                                                   v |-> got])],
                              read |-> si = 0, url |-> url])

(***************************************************************************)
(* The resolver as a stack machine.  A frame is one _resolve_refs call:    *)
(* sub is its local variable subschema, pc where it stands, i the next     *)
(* position of its loop, n the size of the dict when the loop began, res   *)
(* the value the $ref resolved to, and top whether it is the call made by  *)
(* resolve_all_refs itself.                                                *)
(***************************************************************************)
Frame(v, top) == [sub |-> v, pc |-> "enter", i |-> 1, n |-> 0, res |-> None, top |-> top]

Top == stack[Len(stack)]
Resolver == rstack[Len(rstack)]
Running == status = "running" /\ stack # <<>>

SetTop(f) == [stack EXCEPT ![Len(stack)] = f]

NoRes == [set |-> FALSE]

Fail(kind) ==
    /\ status' = "failed"
    /\ err' = kind
    /\ stack' = <<>>
    /\ rstack' = <<>>
    /\ result' = None

\* recursive_resolve, lines 22-33: read and parse the schema file, make the
\* resolver and call resolve_all_refs on the document.
recursive_resolve ==
    /\ status = "start"
    /\ IF ReadFile(files, SchemaFile) = NoFile
       THEN /\ Fail("FileNotFoundError")
            /\ UNCHANGED <<heap, input>>
       ELSE LET ld == json_loads(heap, ReadFile(files, SchemaFile))
            IN  /\ heap' = ld.h
                /\ input' = ReadFile(files, SchemaFile)
                /\ rstack' = <<RefResolver(BaseUri, ld.v, SchemaFile, ld.v)>>
                /\ stack' = <<Frame(ld.v, TRUE)>>
                /\ status' = "running"
                /\ UNCHANGED <<err, result>>
    /\ UNCHANGED <<files, loaded, lastRes, missed, refs, mlog, pass, firstOut>>
    /\ UNCHANGED compilerVars

HasRefKey(h, v) == IsDict(h, v) /\ HasKey(h[v.id].e, "$ref")

\* The $ref of the current frame, looked up by the current resolver.
Lookup == resolve(files, heap, Resolver, GetKey(heap[Top.sub.id].e, "$ref"))

\* What the lookup is recorded as: the pointer, the URL it was joined to,
\* the nesting level, the location and root of the document that declares
\* the pointer, and what walking the fragment from that root gives.
LookupRecord(ref, lk) ==
    [set |-> TRUE, ptr |-> ref, url |-> lk.url, nest |-> Len(rstack),
     ok |-> lk.ok, got |-> lk.v, loc |-> Resolver.loc,
     want |-> IF ref.doc = <<>>
              THEN resolve_fragment(heap, Resolver.droot, ref.frag)
              ELSE lk.v]

\* Whether the pointer names something absent: a document that cannot be
\* loaded, or a path that the document declaring a fragment-only pointer
\* (or the document loaded for a cross-document one) does not have.
Absent(ref, lk) ==
    IF ref.doc = <<>>
    THEN resolve_fragment(heap, Resolver.droot, ref.frag) = None
    ELSE ~lk.ok

\* A nested call based at the location of the document just looked up.
NestedBaseOwn(base_uri, url) == url

\* The base URI handed to the nested resolve_all_refs call and its
\* resolver (lines 53-55): the one this call was given.
NestedBase(base_uri, url) == base_uri

\* The referrer of the nested resolver (line 54): the resolved node, not the
\* root of the document it was found in.
NestedReferrer(resolved, docroot) == resolved

\* The root of the document a lookup took its value from.
DocRoot(ref, lk) ==
    IF ref.doc = <<>> THEN Resolver.droot
    ELSE lk.r.store[StoreIndex(lk.r.store, lk.url)].v

\* _resolve_refs, lines 48-55: the dict holds "$ref"; the resolver resolves
\* it and resolve_all_refs is called on the resolved value with a new
\* RefResolver.
ResolveRef ==
    /\ Running
    /\ Top.pc = "enter"
    /\ HasRefKey(heap, Top.sub)
    /\ Lookup.ok
    /\ Len(rstack) < MaxNest
    /\ LET ref == GetKey(heap[Top.sub.id].e, "$ref")
           lk == Lookup
           base == NestedBase(Resolver.base, lk.url)
           root == DocRoot(ref, lk)
       IN  /\ heap' = lk.h
           /\ rstack' = Append([rstack EXCEPT ![Len(rstack)] = lk.r],
                               RefResolver(base, NestedReferrer(lk.v, root),
                                           IF ref.doc = <<>> THEN Resolver.loc ELSE lk.url,
                                           root))
           /\ stack' = Append(SetTop([Top EXCEPT !.pc = "merge", !.res = lk.v]),
                              Frame(lk.v, TRUE))
           /\ loaded' = IF lk.read THEN Append(loaded, lk.url) ELSE loaded
           /\ lastRes' = LookupRecord(ref, lk)
           /\ missed' = (missed \/ Absent(ref, lk))
    /\ UNCHANGED <<files, status, err, result, input, refs, mlog, pass, firstOut>>
    /\ UNCHANGED compilerVars

\* Line 51 raising RefResolutionError: the document cannot be loaded or the
\* fragment's path is not in it.  Nothing catches it.
ResolveRefError ==
    /\ Running
    /\ Top.pc = "enter"
    /\ HasRefKey(heap, Top.sub)
    /\ ~Lookup.ok
    /\ LET ref == GetKey(heap[Top.sub.id].e, "$ref")
           lk == Lookup
       IN  /\ heap' = lk.h
           /\ loaded' = IF lk.read THEN Append(loaded, lk.url) ELSE loaded
           /\ lastRes' = LookupRecord(ref, lk)
           /\ missed' = TRUE
    /\ Fail("RefResolutionError")
    /\ UNCHANGED <<files, input, refs, mlog, pass, firstOut>>
    /\ UNCHANGED compilerVars

\* The recursion through resolve_all_refs has no bound in the code; the
\* model follows it MaxNest levels deep and then records that it goes on.
ResolveRefDeeper ==
    /\ Running
    /\ Top.pc = "enter"
    /\ HasRefKey(heap, Top.sub)
    /\ Lookup.ok
    /\ Len(rstack) >= MaxNest
    /\ status' = "overflow"
    /\ UNCHANGED <<files, heap, stack, rstack, err, result, loaded, lastRes,
                   missed, input, refs, mlog, pass, firstOut>>
    /\ UNCHANGED compilerVars

\* The keys that the referencing dict and the resolved dict both define
\* with different scalar values, as they are just before the merge.
Conflicts(h, sub, res) ==
    IF ~(IsDict(h, sub) /\ IsDict(h, res)) THEN <<>>
    ELSE LET es == h[sub.id].e
             rs == h[res.id].e
             Hit(i) == /\ es[i].v.k = "str"
                       /\ HasKey(rs, es[i].key)
                       /\ GetKey(rs, es[i].key).k = "str"
                       /\ GetKey(rs, es[i].key) # es[i].v
         IN  SelectSeq([i \in 1..Len(es) |->
                          [id |-> sub.id, key |-> es[i].key, hit |-> Hit(i),
                           local |-> es[i].v,
                           remote |-> IF HasKey(rs, es[i].key)
                                      THEN GetKey(rs, es[i].key) ELSE None]],
                       LAMBDA c : c.hit)

\* _resolve_refs, lines 56-60, after the nested resolve_all_refs returned:
\* subschema = always_merger.merge(subschema, resolved), and "$ref" is
\* popped if the merged value is a dict.  The assignment rebinds the local
\* variable only: the container that holds the referencing dict keeps
\* holding that dict.  Lines 62-66 then choose how to go on; a merged value
\* that is neither a list nor a dict has no values() to iterate.
MergeResolved ==
    /\ Running
    /\ Top.pc = "merge"
    /\ LET m == merge(heap, Top.sub, Top.res)
           h2 == IF IsDict(m.h, m.v)
                 THEN [m.h EXCEPT ![m.v.id].e = PopKey(@, "$ref")]
                 ELSE m.h
       IN  /\ heap' = h2
           /\ mlog' = mlog \o Conflicts(heap, Top.sub, Top.res)
           /\ IF IsList(h2, m.v)
              THEN /\ stack' = SetTop([Top EXCEPT !.sub = m.v, !.pc = "relist"])
                   /\ UNCHANGED <<status, err, rstack, result>>
              ELSE IF IsDict(h2, m.v)
              THEN /\ stack' = SetTop([Top EXCEPT !.sub = m.v, !.pc = "iter", !.i = 1,
                                                  !.n = Len(h2[m.v.id].e)])
                   /\ UNCHANGED <<status, err, rstack, result>>
              ELSE Fail("AttributeError")
    /\ UNCHANGED <<files, loaded, lastRes, missed, input, refs, pass, firstOut>>
    /\ UNCHANGED compilerVars

\* Lines 48-49 and 64-65: a dict without "$ref" goes straight to the loop
\* over its values.
EnterDict ==
    /\ Running
    /\ Top.pc = "enter"
    /\ IsDict(heap, Top.sub)
    /\ ~HasRefKey(heap, Top.sub)
    /\ stack' = SetTop([Top EXCEPT !.pc = "iter", !.i = 1, !.n = Len(heap[Top.sub.id].e)])
    /\ UNCHANGED <<files, heap, rstack, status, err, result, loaded, lastRes,
                   missed, input, refs, mlog, pass, firstOut>>
    /\ UNCHANGED compilerVars

\* Lines 67-69: a list goes to the loop over its items.
EnterList ==
    /\ Running
    /\ Top.pc = "enter"
    /\ IsList(heap, Top.sub)
    /\ stack' = SetTop([Top EXCEPT !.pc = "iterlist", !.i = 1])
    /\ UNCHANGED <<files, heap, rstack, status, err, result, loaded, lastRes,
                   missed, input, refs, mlog, pass, firstOut>>
    /\ UNCHANGED compilerVars

\* Lines 65-66: _resolve_refs(value) for the next value of the dict.  A
\* dict whose size changed since the loop began ends the loop with a
\* RuntimeError.
VisitValue ==
    /\ Running
    /\ Top.pc = "iter"
    /\ Top.i <= Top.n
    /\ IF Len(heap[Top.sub.id].e) # Top.n
       THEN Fail("RuntimeError")
       ELSE /\ stack' = Append(SetTop([Top EXCEPT !.i = @ + 1]),
                               Frame(heap[Top.sub.id].e[Top.i].v, FALSE))
            /\ UNCHANGED <<status, err, rstack, result>>
    /\ UNCHANGED <<files, heap, loaded, lastRes, missed, input, refs, mlog, pass, firstOut>>
    /\ UNCHANGED compilerVars

\* Lines 69-70: _resolve_refs(item) for the next item of the list.
VisitItem ==
    /\ Running
    /\ Top.pc = "iterlist"
    /\ Top.i <= Len(heap[Top.sub.id].e)
    /\ stack' = Append(SetTop([Top EXCEPT !.i = @ + 1]),
                       Frame(heap[Top.sub.id].e[Top.i].v, FALSE))
    /\ UNCHANGED <<files, heap, rstack, status, err, result, loaded, lastRes,
                   missed, input, refs, mlog, pass, firstOut>>
    /\ UNCHANGED compilerVars

\* Lines 62-63: the merged value is a list, and _resolve_refs is called on
\* it.
VisitMergedList ==
    /\ Running
    /\ Top.pc = "relist"
    /\ stack' = Append(SetTop([Top EXCEPT !.pc = "done"]), Frame(Top.sub, FALSE))
    /\ UNCHANGED <<files, heap, rstack, status, err, result, loaded, lastRes,
                   missed, input, refs, mlog, pass, firstOut>>
    /\ UNCHANGED compilerVars

\* Whether the frame has nothing left to do: a scalar, a finished loop, or
\* the call on the merged list having returned.
Finished(f) ==
    CASE f.pc = "enter" -> ~IsObj(f.sub)
      [] f.pc = "iter" -> f.i > f.n
      [] f.pc = "iterlist" -> f.i > Len(heap[f.sub.id].e)
      [] f.pc = "done" -> TRUE
      [] OTHER -> FALSE

\* A _resolve_refs call returns to its caller.  The call made by
\* resolve_all_refs ends that resolve_all_refs call and its resolver; the
\* outermost one ends recursive_resolve, which returns the document it
\* parsed (line 35).
Return ==
    /\ Running
    /\ Finished(Top)
    /\ stack' = SubSeq(stack, 1, Len(stack) - 1)
    /\ rstack' = IF Top.top THEN SubSeq(rstack, 1, Len(rstack) - 1) ELSE rstack
    /\ IF Len(stack) = 1
       THEN /\ status' = "returned"
            /\ result' = rstack[1].store[1].v
       ELSE UNCHANGED <<status, result>>
    /\ UNCHANGED <<files, heap, err, loaded, lastRes, missed, input, refs, mlog,
                   pass, firstOut>>
    /\ UNCHANGED compilerVars

\* resolve_all_refs called again on the document a resolve call returned,
\* with a resolver of its own.
ResolveAgain ==
    /\ status = "returned"
    /\ pass = 1
    /\ pass' = 2
    /\ firstOut' = ToTree(heap, result)
    /\ rstack' = <<RefResolver(BaseUri, result, SchemaFile, result)>>
    /\ stack' = <<Frame(result, TRUE)>>
    /\ status' = "running"
    /\ result' = None
    /\ UNCHANGED <<files, heap, err, loaded, lastRes, missed, input, refs, mlog>>
    /\ UNCHANGED compilerVars

(***************************************************************************)
(* The reference graph of the documents on disk, as the documents state    *)
(* it: a node is a position in a file, and it leads to its children and,   *)
(* when it is a dict with "$ref", to the node the pointer names: the       *)
(* fragment walked from the root of the declaring file (fragment-only) or  *)
(* of the file the document part names.                                    *)
(***************************************************************************)
RECURSIVE Positions(_)
Positions(t) ==
    IF IsLeaf(t) THEN {<<>>}
    ELSE {<<>>} \cup UNION {{<<i>> \o q : q \in Positions(t.e[i].v)} : i \in 1..Len(t.e)}

RECURSIVE TreeAt(_, _)
TreeAt(t, pos) == IF pos = <<>> THEN t ELSE TreeAt(t.e[Head(pos)].v, Tail(pos))

\* The position a fragment names in a tree, <<0>> when it names none.
RECURSIVE StaticWalk(_, _)
StaticWalk(t, frag) ==
    IF frag = <<>> THEN <<>>
    ELSE IF t.t = "dict" /\ HasKey(t.e, Head(frag))
    THEN LET rest == StaticWalk(GetKey(t.e, Head(frag)), Tail(frag))
         IN IF rest = <<0>> THEN <<0>> ELSE <<KeyIndex(t.e, Head(frag))>> \o rest
    ELSE <<0>>

IsRefNode(t) == t.t = "dict" /\ HasKey(t.e, "$ref") /\ GetKey(t.e, "$ref").t = "ptr"

\* The file a pointer declared in file f names.
TargetFile(f, ptr) ==
    IF ptr.doc = <<>> THEN f
    ELSE IF urljoin(BaseUri, ptr.doc) = BaseUri THEN SchemaFile
    ELSE urljoin(BaseUri, ptr.doc)

\* The nodes a pointer declared in file f names: one, or none.
RefTargets(fs, f, ptr) ==
    LET tf == TargetFile(f, ptr)
    IN  IF ReadFile(fs, tf) = NoFile THEN {}
        ELSE IF StaticWalk(ReadFile(fs, tf), ptr.frag) = <<0>> THEN {}
        ELSE {[f |-> tf, p |-> StaticWalk(ReadFile(fs, tf), ptr.frag)]}

NodeTree(fs, n) == TreeAt(fs[n.f], n.p)

Succ(fs, n) ==
    LET t == NodeTree(fs, n)
    IN  (IF IsLeaf(t) THEN {} ELSE {[f |-> n.f, p |-> n.p \o <<i>>] : i \in 1..Len(t.e)})
        \cup (IF IsRefNode(t) THEN RefTargets(fs, n.f, GetKey(t.e, "$ref")) ELSE {})

RECURSIVE Closure(_, _)
Closure(fs, S) ==
    LET T == S \cup UNION {Succ(fs, n) : n \in S}
    IN IF T = S THEN S ELSE Closure(fs, T)

RootNode == [f |-> SchemaFile, p |-> <<>>]

\* cyclic: a node reachable from the root document leads back to itself.
\* dangling: a reachable "$ref" names no node.  nondict: a reachable "$ref"
\* names a node that is not a dict.
RefGraph(fs) ==
    LET reach == IF fs[SchemaFile] = NoFile THEN {} ELSE Closure(fs, {RootNode})
        refNodes == {n \in reach : IsRefNode(NodeTree(fs, n))}
        Targets(n) == RefTargets(fs, n.f, GetKey(NodeTree(fs, n).e, "$ref"))
    IN  [cyclic |-> \E n \in reach : n \in Closure(fs, Succ(fs, n)),
         dangling |-> \E n \in refNodes : Targets(n) = {},
         nondict |-> \E n \in refNodes : \E m \in Targets(n) : NodeTree(fs, m).t # "dict"]

(***************************************************************************)
(* The documents the resolver is run on.                                   *)
(***************************************************************************)
\* Pointers: fragment-only ones, and ones with a document part, written
\* relative to the base URI as in tests/test_schema.py ("<dir>/b.json#...")
\* or as a bare file name ("c.json#...").
fX == TPtr(<<>>, <<"x">>)
fY == TPtr(<<>>, <<"y">>)
fZ == TPtr(<<>>, <<"z">>)
fW == TPtr(<<>>, <<"w">>)
fRoot == TPtr(<<>>, <<>>)
fYL == TPtr(<<>>, <<"y", "l">>)
fYK == TPtr(<<>>, <<"y", "k">>)
pA == TPtr(<<"d", "a">>, <<"x">>)
pB == TPtr(<<"d", "b">>, <<"x">>)
pC == TPtr(<<"d", "c">>, <<"x">>)
pSib == TPtr(<<"c">>, <<"x">>)

Remote == TDict(<<E("k", TStr("remote"))>>)
Inner == TDict(<<E("k", TStr("inner"))>>)
Other == TDict(<<E("k", TStr("other"))>>)
Typed == TDict(<<E("k", TStr("remote")), E("t", TStr("object")),
                 E("m", TDict(<<E("n", TStr("number"))>>))>>)
Deep == TDict(<<E("k", TStr("remote")), E("l", TDict(<<E("k", TStr("deep"))>>))>>)
ListS == TList(<<TStr("s")>>)
Ref(p) == TDict(<<E("$ref", p)>>)
RefK(p) == TDict(<<E("$ref", p), E("k", TStr("local")),
                   E("m", TDict(<<E("g", TStr("string"))>>))>>)
RefMid(p) == TDict(<<E("$ref", p), E("k", TStr("mid"))>>)
RefWithY(p) == TDict(<<E("$ref", p), E("y", Inner)>>)
ListThenRef(p) == TDict(<<E("l", ListS), E("$ref", p)>>)

XNodes ==
    {RefK(p) : p \in {fX, fY, fW, fRoot, fYL, fYK, pB, pC, pSib}}
    \cup {Remote, TList(<<RefK(pB)>>), TList(<<Ref(fY)>>)}

YNodes == {Typed, ListS, Ref(fZ), ListThenRef(fZ)}

\* The root document: a ref under "x" and its target under "y", in either
\* order of the text, or a "$ref" at the root itself.
RootDocs ==
    {TDict(<<E("x", x), E("y", y), E("z", Deep)>>) : x \in XNodes, y \in YNodes}
    \cup {TDict(<<E("z", Deep), E("y", y), E("x", x)>>) : x \in XNodes, y \in YNodes}
    \cup {RefK(pB), Ref(fRoot)}

BDocs ==
    {TDict(<<E("x", Typed)>>),
     TDict(<<E("x", Ref(pC))>>),
     TDict(<<E("x", RefMid(pC))>>),
     TDict(<<E("x", Ref(fY)), E("y", Remote)>>),
     TDict(<<E("x", RefWithY(fY)), E("y", Remote)>>),
     TDict(<<E("x", RefWithY(fY))>>),
     TDict(<<E("x", Ref(pA))>>),
     TDict(<<E("x", ListS)>>),
     TDict(<<E("x", Ref(pSib))>>),
     TDict(<<E("x", Ref(pB))>>)}

CDocs ==
    {TDict(<<E("x", Typed)>>),
     TDict(<<E("x", Ref(pB))>>),
     TDict(<<E("x", ListS)>>),
     TDict(<<E("x", Ref(fY)), E("y", Remote)>>)}

SibDocs == {TDict(<<E("x", Other)>>)}

FileB == <<"d", "b">>
FileC == <<"d", "c">>
FileSib == <<"c">>
FilePaths == {SchemaFile, FileB, FileC, FileSib}

\* Whether a pointer of the tree names the file.
RECURSIVE Mentions(_, _)
Mentions(t, f) ==
    IF t.t = "ptr" THEN t.doc # <<>> /\ urljoin(BaseUri, t.doc) = f
    ELSE IF t.t \in {"str", "nofile"} THEN FALSE
    ELSE \E i \in 1..Len(t.e) : Mentions(t.e[i].v, f)

World(a, b, c, s) ==
    [f \in FilePaths |->
        IF f = SchemaFile THEN a ELSE IF f = FileB THEN b ELSE IF f = FileC THEN c ELSE s]

\* The file systems of the model: a file other than the schema file is
\* there only if some file that is there names it.
Worlds ==
    {w \in {World(q[1], q[2], q[3], q[4]) :
                q \in RootDocs \X (BDocs \cup {NoFile}) \X (CDocs \cup {NoFile})
                      \X (SibDocs \cup {NoFile})} :
        \A f \in FilePaths \ {SchemaFile} :
            w[f] # NoFile => \E g \in FilePaths \ {f} : Mentions(w[g], f)}

(***************************************************************************)
(* The resolver's state before recursive_resolve is called.                *)
(***************************************************************************)
ResolverInit ==
    /\ heap = <<>>
    /\ stack = <<>>
    /\ rstack = <<>>
    /\ status = "start"
    /\ err = ""
    /\ result = None
    /\ loaded = <<>>
    /\ lastRes = NoRes
    /\ missed = FALSE
    /\ input = NoFile
    /\ refs = RefGraph(files)
    /\ mlog = <<>>
    /\ pass = 1
    /\ firstOut = NoFile

(***************************************************************************)
(* The compiler: process_file (codectl/compiler.py).  A render context     *)
(* maps keys to values; a template is a sequence of literal pieces and     *)
(* "{{ variable }}" pieces; rendered text is the sequence of its non-empty *)
(* pieces.                                                                 *)
(***************************************************************************)
Bool(b) == [k |-> "bool", b |-> b]

\* Python's truth value of a context value: False and "" are false.
Truthy(v) == IF v.k = "bool" THEN v.b ELSE v.s # ""

\* str(v), as Jinja prints a value.
ToText(v) == IF v.k = "bool" THEN (IF v.b THEN "True" ELSE "False") ELSE v.s

Lit(s) == [k |-> "lit", s |-> s]
Var(n) == [k |-> "var", s |-> n]
\* "{{ n.a }}": the member a of the mapping bound to n.
Attr(n, a) == [k |-> "attr", s |-> n, a |-> a]

\* A JSON array and a JSON object as context values.
List(e) == [k |-> "list", e |-> e]
Map(m) == [k |-> "map", m |-> m]

\* schemas.update(schema)
dict_update(schemas, schema) ==
    [key \in DOMAIN schemas \cup DOMAIN schema |->
        IF key \in DOMAIN schema THEN schema[key] ELSE schemas[key]]

\* schemas.get(key, default)
dict_get(schemas, key, default) ==
    IF key \in DOMAIN schemas THEN schemas[key] ELSE default

\* Template.render: a literal piece is copied, a variable piece is replaced by
\* its value in the context, by nothing when the context lacks it (or lacks
\* the member asked for).
RECURSIVE render(_, _)
render(tmpl, schemas) ==
    IF tmpl = <<>> THEN <<>>
    ELSE LET piece == Head(tmpl)
             text == IF piece.k = "lit" THEN piece.s
                     ELSE IF piece.s \notin DOMAIN schemas THEN ""
                     ELSE IF piece.k = "var" THEN ToText(schemas[piece.s])
                     ELSE IF schemas[piece.s].k = "map" /\ piece.a \in DOMAIN schemas[piece.s].m
                     THEN ToText(schemas[piece.s].m[piece.a])
                     ELSE ""
         IN (IF text = "" THEN <<>> ELSE <<text>>) \o render(Tail(tmpl), schemas)

\* What the output directory holds at a path.
NoEntry == [kind |-> "none"]
DirEntry == [kind |-> "dir"]
FileEntry(text) == [kind |-> "file", text |-> text]

is_file(entry) == entry.kind = "file"

\* A process_file that always writes.
SkipsNever(exists, update) == FALSE

\* Whether process_file leaves the output path alone (line 92).
Skips(exists, update) == exists /\ ~Truthy(update)

\* The templates: the stem of the template's file name, its body and the
\* ".schema" file next to it (empty when there is none).
Stems == {<<Lit("a"), Lit(".txt")>>, <<Var("name"), Lit(".txt")>>}
Bodies == {<<Lit("V1.1.0"), Var("system")>>}
NoSchema == [key \in {} |-> Bool(FALSE)]
AssocSchemas == {NoSchema, "_update" :> Bool(TRUE), "_update" :> Bool(FALSE)}

\* The render contexts process_file is called with.
UpdateValues == {Bool(TRUE), Bool(FALSE), Str("false"), Str("")}
Data == {[key \in {"name", "system"} |-> IF key = "name" THEN Str(n) ELSE Str(sys)] :
            n \in {"a", "b"}, sys \in {"centos", "ubuntu"}}
Contexts == Data \cup {("_update" :> u) @@ d : u \in UpdateValues, d \in Data}

OutPaths == {render(stem, c) : stem \in Stems, c \in Contexts}
OldFile == FileEntry(<<"old">>)

NoCall == [set |-> FALSE, n |-> 0, plain |-> TRUE]

NoBatch == [set |-> FALSE, n |-> 0]
NoConfig == [kind |-> "none"]
NoCommand == [cmd |-> "", phase |-> "idle", n |-> 0, latest |-> NoSchema]

CompilerInit ==
    /\ notices = <<>>
    /\ lastCall = NoCall
    /\ lastBatch = NoBatch
    /\ configFile = NoConfig
    /\ disk = [dirs |-> {}, copied |-> {}, tmpl |-> <<>>]
    /\ cli = NoCommand
    /\ firstWrite = [p \in OutPaths |-> IF is_file(outFiles[p]) THEN outFiles[p] ELSE NoEntry]

\* process_file on an output directory: what the directory, the notices and
\* the record of first writes are afterwards, and what the call did.
process_file_on(out, nts, fw, stem, body, schema, ctx) ==
    LET schemas == dict_update(ctx, schema)
        content == render(body, schemas)
        filepath == render(stem, schemas)
        update == dict_get(schemas, "_update", Bool(FALSE))
        before == out[filepath]
        call == [filepath |-> filepath, content |-> content, schemas |-> schemas,
                 given |-> "_update" \in DOMAIN schemas, update |-> update,
                 before |-> before, notices |-> nts]
    IN  IF Skips(is_file(before), update)
        THEN call @@ [outcome |-> "ignored", outFiles |-> out,
                      nts |-> Append(nts, filepath), firstWrite |-> fw]
        ELSE IF before = DirEntry
        THEN call @@ [outcome |-> "IsADirectoryError", outFiles |-> out,
                      nts |-> nts, firstWrite |-> fw]
        ELSE call @@ [outcome |-> "written",
                      outFiles |-> [out EXCEPT ![filepath] = FileEntry(content)],
                      nts |-> nts,
                      firstWrite |-> [fw EXCEPT ![filepath] =
                                         IF @ = NoEntry THEN FileEntry(content) ELSE @]]

process_file ==
    /\ lastCall.n < MaxCalls
    /\ \E stem \in Stems, body \in Bodies, schema \in AssocSchemas, ctx \in Contexts :
        LET r == process_file_on(outFiles, notices, firstWrite, stem, body, schema, ctx)
        IN  /\ outFiles' = r.outFiles
            /\ notices' = r.nts
            /\ firstWrite' = r.firstWrite
            /\ lastCall' = [set |-> TRUE, n |-> lastCall.n + 1,
                            plain |-> lastCall.plain /\ ~Truthy(r.update),
                            filepath |-> r.filepath, content |-> r.content,
                            given |-> r.given, update |-> r.update,
                            before |-> r.before, notices |-> r.notices,
                            outcome |-> r.outcome]
    /\ UNCHANGED <<resolverVars, lastBatch, cliVars>>

\* The compiler called on one output directory, holding files, directories
\* or nothing at the paths the templates render to.
FilesInit ==
    /\ files = World(TDict(<<>>), NoFile, NoFile, NoFile)
    /\ ResolverInit
    /\ outFiles \in [OutPaths -> {NoEntry, DirEntry, OldFile}]
    /\ CompilerInit

FilesSpec == FilesInit /\ [][process_file]_vars

\* ---------------------------------------------------------------------------
\* Batch mode: process_files.

\* str.split("."), for the key paths of the model.
split_dots(s) == IF s = "data.apis" THEN <<"data", "apis">> ELSE <<s>>

\* retrieve_nested_value: reduce(getitem, keys, dictionary); a missing key is
\* a KeyError.
KeyError == [k |-> "KeyError"]

RECURSIVE retrieve_nested_value(_, _)
retrieve_nested_value(dictionary, keys) ==
    IF keys = <<>> THEN Map(dictionary)
    ELSE IF Head(keys) \notin DOMAIN dictionary THEN KeyError
    ELSE IF Len(keys) = 1 THEN dictionary[Head(keys)]
    ELSE IF dictionary[Head(keys)].k # "map" THEN KeyError
    ELSE retrieve_nested_value(dictionary[Head(keys)].m, Tail(keys))

\* handlers.py: the filters a template directory registers under their
\* function names.
filter_apis(value) == SelectSeq(value, LAMBDA x : x.m["version"] = Str("1.0.0"))

EnvFilters == {"filter_apis", "filter_upper"}

\* "elements or []": JSON null and the empty array give no element.
or_empty(v) == IF v.k = "list" THEN v.e ELSE <<>>

\* {"_": elem, **schemas}: a "_" of the context replaces the element.
bind_elem(elem, schemas) == dict_update("_" :> elem, schemas)

\* The loop of process_files from element i on; it stops at the first call
\* that raises. st is the output directory with the calls made so far.
RECURSIVE batch_loop(_, _, _, _, _, _, _)
batch_loop(st, elements, i, stem, body, schema, schemas) ==
    IF i > Len(elements) THEN st
    ELSE LET r == process_file_on(st.outFiles, st.nts, st.firstWrite, stem, body,
                                  schema, bind_elem(elements[i], schemas))
             nxt == [outFiles |-> r.outFiles, nts |-> r.nts, firstWrite |-> r.firstWrite,
                     calls |-> Append(st.calls, [filepath |-> r.filepath,
                                                 outcome |-> r.outcome,
                                                 elem |-> elements[i],
                                                 bound |-> r.schemas["_"]]),
                     outcome |-> IF r.outcome = "IsADirectoryError" THEN r.outcome
                                 ELSE "done"]
         IN  IF nxt.outcome # "done" THEN nxt
             ELSE batch_loop(nxt, elements, i + 1, stem, body, schema, schemas)

\* process_files on an output directory. The elements are bound only when
\* "_iter" is truthy; the loop reads them in every case.
process_files_on(out, nts, fw, stem, body, schema, ctx) ==
    LET schemas == dict_update(ctx, schema)
        iter_key == dict_get(schemas, "_iter", None)
        named == iter_key # None /\ Truthy(iter_key)
        source == retrieve_nested_value(schemas, split_dots(iter_key.s))
        _iter_filter == dict_get(schemas, "_iter_filter", None)
        filtered == _iter_filter # None /\ Truthy(_iter_filter)
                        /\ _iter_filter.s \in EnvFilters
        st == [outFiles |-> out, nts |-> nts, firstWrite |-> fw, calls |-> <<>>,
               outcome |-> "done"]
        base == [schemas |-> schemas, named |-> named, before |-> out]
    IN  IF ~named
        THEN base @@ [st EXCEPT !.outcome = "UnboundLocalError"] @@ [elements |-> <<>>]
        ELSE IF source = KeyError
        THEN base @@ [st EXCEPT !.outcome = "KeyError"] @@ [elements |-> <<>>]
        ELSE IF filtered /\ _iter_filter.s = "filter_upper"
        THEN base @@ [st EXCEPT !.outcome = "AttributeError"] @@ [elements |-> <<>>]
        ELSE LET elements == IF filtered THEN filter_apis(or_empty(source))
                             ELSE or_empty(source)
             IN  base @@ batch_loop(st, elements, 1, stem, body, schema, schemas)
                      @@ [elements |-> elements]

\* The elements of the iteration sources: two interfaces of the current
\* version, and an older one that shares its name with the first.
Api(name, version) == Map([name |-> Str(name), version |-> Str(version)])

Sources == {<<>>, <<Api("a", "1.0.0")>>, <<Api("a", "1.0.0"), Api("b", "1.0.0")>>,
            <<Api("a", "1.0.0"), Api("a", "2.0.0")>>,
            <<Api("b", "2.0.0"), Api("a", "1.0.0")>>}

\* "{{ _.name }}.txt.mtpl" with a body that names the element's version.
BatchStem == <<Attr("_", "name"), Lit(".txt")>>
BatchBody == <<Lit("V"), Attr("_", "version")>>

\* The .schema files next to a batch template: with and without "_iter", with
\* a key path that leads nowhere, with and without a filter.
BatchSchemas ==
    {NoSchema, "_iter" :> Str(""), "_iter" :> Str("apis"), "_iter" :> Str("data.apis"),
     "_iter" :> Str("none"),
     ("_iter" :> Str("apis")) @@ ("_update" :> Bool(TRUE)),
     ("_iter" :> Str("apis")) @@ ("_iter_filter" :> Str("filter_apis")),
     ("_iter" :> Str("apis")) @@ ("_iter_filter" :> Str("filter_upper")),
     ("_iter" :> Str("apis")) @@ ("_iter_filter" :> Str("snake"))}

BatchContexts ==
    {("apis" :> List(src)) @@ ("data" :> Map("apis" :> List(src))) : src \in Sources}
        \cup {"apis" :> None}

process_files ==
    /\ lastBatch.n < MaxCalls
    /\ \E schema \in BatchSchemas, ctx \in BatchContexts :
        LET r == process_files_on(outFiles, notices, firstWrite, BatchStem, BatchBody,
                                  schema, ctx)
        IN  /\ outFiles' = r.outFiles
            /\ notices' = r.nts
            /\ firstWrite' = r.firstWrite
            /\ lastBatch' = [set |-> TRUE, n |-> lastBatch.n + 1, named |-> r.named,
                             schemas |-> r.schemas, elements |-> r.elements,
                             calls |-> r.calls, outcome |-> r.outcome,
                             before |-> r.before]
    /\ UNCHANGED <<resolverVars, lastCall, cliVars>>

\* process_files called on one output directory that holds anything.
BatchSpec == FilesInit /\ [][process_files]_vars

\* ---------------------------------------------------------------------------
\* The command line: config.

\* The configuration file holding a mapping. json.dumps and json.loads are
\* inverse on the mappings of strings the command writes, so the file is
\* written as the mapping it holds.
ConfigOf(m) == [kind |-> "file", m |-> m]

\* get_user_config: the stored mapping, or the empty one, which is then stored.
get_user_config(file) ==
    IF file.kind = "file" THEN [config |-> file.m, file |-> file]
    ELSE [config |-> NoSchema, file |-> ConfigOf(NoSchema)]

\* The -i items, each written as the pieces between its "=" signs:
\* "template_dir=tpl", "template_dir=missing", "k=v", "k", "k=v=w".
Items == {<<"template_dir", "tpl">>, <<"template_dir", "missing">>, <<"k", "v">>,
          <<"k">>, <<"k", "v", "w">>}

\* The loop of config --set with a later item of a key ignored.
RECURSIVE set_items_first(_, _)
set_items_first(user_config, items) ==
    IF items = <<>> THEN [ok |-> TRUE, config |-> user_config]
    ELSE IF Len(Head(items)) # 2 THEN [ok |-> FALSE, config |-> user_config]
    ELSE set_items_first(dict_update(Head(items)[1] :> Str(Head(items)[2]), user_config),
                         Tail(items))

\* The loop of config --set: "key, value = item.split("=")" raises ValueError
\* unless the item has two pieces; user_config is the mapping in memory then.
RECURSIVE set_items(_, _)
set_items(user_config, items) ==
    IF items = <<>> THEN [ok |-> TRUE, config |-> user_config]
    ELSE IF Len(Head(items)) # 2 THEN [ok |-> FALSE, config |-> user_config]
    ELSE set_items(dict_update(user_config, Head(items)[1] :> Str(Head(items)[2])),
                   Tail(items))

\* The file after the loop with the mapping written item by item.
stored_after_each(file, r) == ConfigOf(r.config)

\* The file after the loop: write_text follows the loop, and is not reached
\* when an item raised.
stored_after(file, r) == IF r.ok THEN ConfigOf(r.config) ELSE file

\* For each key, the value of the last well-formed item that names it, or
\* the value it had.
LatestSet(latest, items) ==
    LET naming(key) == {i \in DOMAIN items : Len(items[i]) = 2 /\ items[i][1] = key}
        last(key) == CHOOSE i \in naming(key) : \A j \in naming(key) : j <= i
        keys == {items[i][1] : i \in {j \in DOMAIN items : Len(items[j]) = 2}}
    IN  [key \in DOMAIN latest \cup keys |->
            IF naming(key) # {} THEN Str(items[last(key)][2]) ELSE latest[key]]

config ==
    /\ cli.phase = "idle"
    /\ cli.n < MaxCmds
    /\ \E set \in BOOLEAN, show \in BOOLEAN, items \in UNION {[1..n -> Items] : n \in 0..MaxItems} :
        /\ ~set => items = <<>>
        /\ LET got == get_user_config(configFile)
               r == set_items(got.config, items)
               user_config == IF set THEN r.config ELSE got.config
               call == [cmd |-> "config", phase |-> "idle", n |-> cli.n + 1,
                        set |-> set, show |-> show, items |-> items,
                        before |-> configFile]
           IN  IF set /\ ~r.ok
               THEN /\ configFile' = stored_after(got.file, r)
                    /\ cli' = call @@ [outcome |-> "ValueError", msgs |-> <<>>,
                                       shown |-> <<>>, latest |-> cli.latest]
               ELSE /\ configFile' = IF set THEN stored_after(got.file, r) ELSE got.file
                    /\ cli' = call @@
                           [outcome |-> "done",
                            msgs |-> IF set /\ ~show
                                     THEN <<"Configuration updated successfully.">>
                                     ELSE <<>>,
                            shown |-> IF show \/ ~set THEN <<user_config>> ELSE <<>>,
                            latest |-> IF set THEN LatestSet(cli.latest, items)
                                       ELSE cli.latest]
    /\ UNCHANGED <<resolverVars, outFiles, notices, lastCall, firstWrite, lastBatch, disk>>

\* The state before the first command: no configuration file, nothing in
\* the output directory.
ConfigInit ==
    /\ files = World(TDict(<<>>), NoFile, NoFile, NoFile)
    /\ ResolverInit
    /\ outFiles = [p \in OutPaths |-> NoEntry]
    /\ CompilerInit

\* The config command, starting with no configuration file.
ConfigSpec == ConfigInit /\ [][config]_vars

Init ==
    /\ files \in Worlds
    /\ ResolverInit
    /\ outFiles = [p \in OutPaths |-> NoEntry]
    /\ CompilerInit

Next ==
    \/ recursive_resolve
    \/ ResolveRef
    \/ ResolveRefError
    \/ ResolveRefDeeper
    \/ MergeResolved
    \/ EnterDict
    \/ EnterList
    \/ VisitValue
    \/ VisitItem
    \/ VisitMergedList
    \/ Return

Spec == Init /\ [][Next]_vars

\* The resolver run once more on its own output.
NextTwice == Next \/ ResolveAgain

SpecTwice == Init /\ [][NextTwice]_vars

\* The resolver is one sequential call: while a step is possible, a step is
\* taken.
FairSpec == Spec /\ WF_vars(Next)

(***************************************************************************)
(* The command line: new, and the process_directory call it makes.         *)
(***************************************************************************)

\* A resolved document as the values of a render context.
RECURSIVE FromTree(_)
FromTree(t) ==
    IF t.t = "str" THEN Str(t.s)
    ELSE IF t.t = "ptr" THEN Ptr(t.doc, t.frag)
    ELSE IF t.t = "list" THEN List([i \in 1..Len(t.e) |-> FromTree(t.e[i].v)])
    ELSE Map([key \in {t.e[i].key : i \in 1..Len(t.e)} |->
                 FromTree(t.e[KeyIndex(t.e, key)].v)])

\* The .schema next to the template "a.txt.tpl".
AssocZ == ("z" :> Map("m" :> Str("assoc"))) @@ ("system" :> Str("assoc"))

\* The files of the app template directory "tpl/a", in the order os.walk
\* lists them: templates with the ".schema" next to them, and a static file.
AppDirs ==
    LET Tpl(name, schema) ==
            [name |-> name, suffix |-> "tpl", stem |-> <<Lit(name), Lit(".txt")>>,
             body |-> <<Lit("V"), Attr("z", "k"), Var("system")>>, schema |-> schema]
        Mtpl(schema) ==
            [name |-> "_", suffix |-> "mtpl", stem |-> BatchStem, body |-> BatchBody,
             schema |-> schema]
        Static == [name |-> "README", suffix |-> "", schema |-> NoSchema]
        AssocIter == ("_iter" :> Str("apis"))
                        @@ ("apis" :> List(<<Api("a", "1.0.0"), Api("b", "1.0.0")>>))
    IN  {<<Tpl("a", AssocZ), Tpl("b", NoSchema), Static>>,
         <<Tpl("b", NoSchema), Static, Tpl("a", AssocZ)>>,
         <<Tpl("a", "x" :> Str("assoc")), Mtpl(AssocIter)>>,
         <<Static, Mtpl(NoSchema), Tpl("a", NoSchema)>>}

\* The root schema.schema of the app template directory: none, one without
\* a reference, one with a reference, one with a reference to nothing.
RootWorlds ==
    {World(NoFile, NoFile, NoFile, NoFile)}
        \cup {World(TDict(<<E("x", x), E("y", Typed), E("z", Deep)>>), NoFile, NoFile, NoFile) :
                 x \in {Remote, RefK(fY), RefK(fW)}}

\* The -d pairs of an invocation, as dict(item.split("=") for item in data)
\* makes them.
Datas == {"system" :> Str("centos"),
          ("system" :> Str("centos")) @@ ("z" :> Str("cli")) @@ ("x" :> Str("cli"))}

\* The directories that exist: the working directory "" and "tpl", which
\* holds the app template directory "a".
TemplateDirs == {"", "tpl"}

\* The shared context after a file's call worked on the context handed to it.
no_deepcopy(schemas, schemas_copy) == schemas_copy

\* copy.deepcopy(schemas): the shared context after a file's call updated
\* its copy.
deepcopy(schemas, schemas_copy) == schemas

\* The message of new about the template directory (its first sentence).
NoTemplateDir == "Template directory does not exist or is not configured."

\* new, up to the call of process_directory.
new ==
    /\ cli.phase = "idle"
    /\ cli.n < MaxCmds
    /\ \E app \in {"a", "none"}, output \in {"", "out"}, data \in Datas :
        LET got == get_user_config(configFile)
            template_dir == dict_get(got.config, "template_dir", Str("")).s
            call == [cmd |-> "new", n |-> cli.n + 1, latest |-> cli.latest,
                     app |-> app, output |-> output, data |-> data,
                     template_dir |-> template_dir,
                     configured |-> "template_dir" \in DOMAIN got.config,
                     before |-> [disk |-> disk, outFiles |-> outFiles]]
        IN  /\ files[SchemaFile] # NoFile => status = "start"
            /\ configFile' = got.file
            /\ IF template_dir \notin TemplateDirs
               THEN /\ cli' = call @@
                        [phase |-> "idle", outcome |-> "done",
                         msgs |-> <<NoTemplateDir>>]
                    /\ UNCHANGED disk
               ELSE /\ disk' = [disk EXCEPT !.dirs = @ \cup ({output} \ {""})]
                    /\ IF ~(template_dir = "tpl" /\ app = "a")
                       THEN cli' = call @@
                                [phase |-> "idle", outcome |-> "done",
                                 msgs |-> <<"App template directory ({app}) does not exist in the template directory.">>]
                       ELSE cli' = call @@
                                [phase |-> IF files[SchemaFile] # NoFile THEN "resolving"
                                           ELSE "walking",
                                 outcome |-> "running", msgs |-> <<>>,
                                 root |-> NoSchema, schemas |-> data, i |-> 1,
                                 used |-> <<>>]
    /\ UNCHANGED <<resolverVars, outFiles, notices, lastCall, firstWrite, lastBatch>>

\* merge_and_export_schemas: the steps of its recursive_resolve call.
ResolveStep ==
    /\ cli.phase = "resolving"
    /\ Next

\* merge_and_export_schemas, after recursive_resolve: schemas.update(schema).
merge_and_export_schemas ==
    /\ cli.phase = "resolving"
    /\ status \in {"returned", "failed"}
    /\ LET schema == ToTree(heap, result)
       IN  IF status = "failed"
           THEN cli' = [cli EXCEPT !.phase = "idle", !.outcome = err]
           ELSE IF schema.t # "dict"
           THEN cli' = [cli EXCEPT !.phase = "idle", !.outcome = "ValueError"]
           ELSE cli' = [cli EXCEPT !.phase = "walking", !.root = FromTree(schema).m,
                                   !.schemas = dict_update(cli.data, FromTree(schema).m)]
    /\ UNCHANGED <<resolverVars, outFiles, notices, lastCall, firstWrite, lastBatch,
                   configFile, disk>>

\* process_directory: the next file of the walk, or the end of the walk and
\* of new. A call that raises ends the command.
process_directory ==
    /\ cli.phase = "walking"
    /\ IF cli.i > Len(disk.tmpl)
       THEN /\ cli' = [cli EXCEPT !.phase = "idle", !.outcome = "done",
                           !.msgs = Append(@, "Application instance created successfully.")]
            /\ UNCHANGED <<outFiles, notices, firstWrite, disk>>
       ELSE LET file == disk.tmpl[cli.i]
                r == IF file.suffix = "tpl"
                     THEN process_file_on(outFiles, notices, firstWrite, file.stem,
                                          file.body, file.schema, cli.schemas)
                     ELSE IF file.suffix = "mtpl"
                     THEN process_files_on(outFiles, notices, firstWrite, file.stem,
                                           file.body, file.schema, cli.schemas)
                     ELSE [outcome |-> "static", outFiles |-> outFiles, nts |-> notices,
                           firstWrite |-> firstWrite, schemas |-> cli.schemas]
                raised == r.outcome \notin {"written", "ignored", "done", "static"}
            IN  /\ outFiles' = r.outFiles
                /\ notices' = r.nts
                /\ firstWrite' = r.firstWrite
                /\ disk' = IF raised THEN disk
                           ELSE [disk EXCEPT !.copied = @ \cup {file.name}]
                /\ cli' = [cli EXCEPT
                             !.i = @ + 1,
                             !.schemas = deepcopy(cli.schemas, r.schemas),
                             !.used = Append(@, [file |-> file, schemas |-> r.schemas]),
                             !.phase = IF raised THEN "idle" ELSE @,
                             !.outcome = IF raised THEN r.outcome ELSE @]
    /\ UNCHANGED <<resolverVars, lastCall, lastBatch, configFile>>

\* The state before a new command: some stored configuration, some app
\* template directory, an empty output directory.
NewInit ==
    /\ files \in RootWorlds
    /\ ResolverInit
    /\ outFiles = [p \in OutPaths |-> NoEntry]
    /\ notices = <<>>
    /\ lastCall = NoCall
    /\ lastBatch = NoBatch
    /\ \E m \in {NoSchema, "template_dir" :> Str("tpl"), "template_dir" :> Str("missing"),
                 "k" :> Str("v")} :
        \E file \in {NoConfig, ConfigOf(m)} :
            /\ configFile = file
            /\ cli = [NoCommand EXCEPT !.latest = m]
            /\ file = NoConfig => m = NoSchema
    /\ disk \in {[dirs |-> {}, copied |-> {}, tmpl |-> d] : d \in AppDirs}
    /\ firstWrite = [p \in OutPaths |-> NoEntry]

NewSpec ==
    NewInit /\ [][new \/ ResolveStep \/ merge_and_export_schemas \/ process_directory]_vars

(***************************************************************************)
(* Properties of the resolver.                                             *)
(***************************************************************************)
Ended == status \in {"returned", "failed"}

\* The document the call returned.
Out == IF status = "returned" THEN ToTree(heap, result) ELSE NoFile

\* C1: whenever the resolve call returns, the returned document holds no
\* "$ref" key at any depth.
NoDanglingRefs == status = "returned" => ~HasRef(Out)

\* C1 (the case): the call returned although a "$ref" named a list.
SeqTargetReturned == status = "returned" /\ refs.nondict

\* C2: after resolution, a key that the referencing node and its resolved
\* target both defined with different scalar values holds the referencing
\* node's own value.
OverrideLocalWins ==
    \A i \in 1..Len(mlog) :
        /\ HasKey(heap[mlog[i].id].e, mlog[i].key)
        /\ GetKey(heap[mlog[i].id].e, mlog[i].key) = mlog[i].local

\* C2 (the case): the call returned after merging a node whose key "k" the
\* target defined differently.
OverrideHappened ==
    /\ status = "returned"
    /\ \E i \in 1..Len(mlog) : mlog[i].key = "k" /\ mlog[i].local = Str("local")

\* The merge the documents ask for, on trees: nxt merged into base.
RECURSIVE TreeMerge(_, _)
RECURSIVE TreeMergeFrom(_, _, _)
TreeMergeFrom(base, nxt, i) ==
    IF i > Len(nxt.e) THEN base
    ELSE LET ent == nxt.e[i]
         IN IF ~HasKey(base.e, ent.key)
            THEN TreeMergeFrom(TDict(Append(base.e, ent)), nxt, i + 1)
            ELSE TreeMergeFrom(
                    TDict(SetKey(base.e, ent.key, TreeMerge(GetKey(base.e, ent.key), ent.v))),
                    nxt, i + 1)

TreeMerge(base, nxt) ==
    IF base.t = "list" /\ nxt.t = "list" THEN [t |-> "list", e |-> base.e \o nxt.e]
    ELSE IF base.t = "dict" /\ nxt.t = "dict" THEN TreeMergeFrom(base, nxt, 1)
    ELSE nxt

\* The chains A -> B -> C of the root document: a node of the root document
\* (the root itself or one of its values) with a "$ref" to a node that is
\* only a "$ref", which names a dict without any reference.  Each is given
\* with its position and the content the chain stands for.
Chains(fs) ==
    LET root == fs[SchemaFile]
        cand == {<<>>} \cup {<<i>> : i \in 1..Len(root.e)}
        A(pos) == TreeAt(root, pos)
        Bs(pos) == IF IsRefNode(A(pos))
                   THEN RefTargets(fs, SchemaFile, GetKey(A(pos).e, "$ref")) ELSE {}
        Cs(b) == IF IsRefNode(NodeTree(fs, b)) /\ Len(NodeTree(fs, b).e) = 1
                 THEN RefTargets(fs, b.f, GetKey(NodeTree(fs, b).e, "$ref")) ELSE {}
        Good(c) == NodeTree(fs, c).t = "dict" /\ ~HasRef(NodeTree(fs, c))
    IN  UNION {UNION {{[pos |-> pos, via |-> b.f,
                        want |-> TreeMerge(TDict(PopKey(A(pos).e, "$ref")), NodeTree(fs, c))] :
                          c \in {c \in Cs(b) : Good(c)}} :
                      b \in Bs(pos)} :
               pos \in cand}

\* C3: every chain of the root document is resolved: the call returns, and
\* the node that started the chain holds the content of the chain's end
\* merged with its own sibling keys, whether the links are cross-document
\* or fragment-only and whatever the order of the keys.
ChainsResolved ==
    status \in {"returned", "failed", "overflow"}
        /\ ~refs.cyclic /\ ~refs.dangling /\ ~refs.nondict
    => \A ch \in Chains(files) :
          /\ status = "returned"
          /\ TreeAt(Out, ch.pos) = ch.want

\* C3 (the case): a chain through another document was resolved.
ChainResolved ==
    /\ status = "returned"
    /\ \E ch \in Chains(files) : ch.via = FileB /\ TreeAt(Out, ch.pos) = ch.want

\* C4 as claimed: a relative document "$ref" declared in a document that
\* was itself loaded through a "$ref" is joined to that document's own
\* location.
NestedRefJoinsOwnLocation ==
    lastRes.set /\ lastRes.ptr.doc # <<>> /\ lastRes.loc # SchemaFile
    => lastRes.url = urljoin(lastRes.loc, lastRes.ptr.doc)

\* C4 as amended: such a "$ref" is joined to the base location that was
\* passed to the top-level resolve call, as every "$ref" is.
NestedRefJoinsCallBase ==
    lastRes.set /\ lastRes.ptr.doc # <<>>
    => lastRes.url = urljoin(BaseUri, lastRes.ptr.doc)

\* C4 (the case): document b, loaded through a "$ref", declared a "$ref" to
\* another document, and that document was loaded.
NestedDocumentLoaded ==
    /\ lastRes.set /\ lastRes.ok
    /\ lastRes.ptr.doc # <<>>
    /\ lastRes.loc = FileB
    /\ lastRes.nest >= 2

\* C5: a fragment-only pointer yields the value that walking its path from
\* the root of the document declaring it yields (and fails when there is
\* none).
FragmentIsolation ==
    lastRes.set /\ lastRes.ptr.doc = <<>> => lastRes.got = lastRes.want

\* C6: once a "$ref" met during resolution named a document that cannot be
\* loaded, or a path that its target document lacks, the call does not
\* return a document.
ErrorPropagation == missed => status # "returned" /\ result = None

\* C7: on input whose references form a cycle (and are otherwise sound) the
\* call neither returns nor fails.
CyclesNeverEnd ==
    refs.cyclic /\ ~refs.dangling /\ ~refs.nondict => ~Ended

\* C8: on input whose reference graph has no cycle the call ends, by
\* returning or by failing.
AcyclicTerminates == ~refs.cyclic ~> Ended

\* C8 (the case): an acyclic input with a chain over two documents was
\* resolved.
AcyclicChainReturned ==
    ~refs.cyclic /\ status = "returned" /\ Len(loaded) >= 2

\* C9: a document without "$ref" comes back equal to the input with no
\* other document loaded; and resolving the output of a resolve call that
\* returned gives that output back.
Idempotence ==
    /\ status = "returned" /\ pass = 1 /\ ~HasRef(input)
       => Out = input /\ loaded = <<>>
    /\ pass = 2 /\ status \in {"returned", "failed"}
       => status = "returned" /\ Out = firstOut

\* C9 (the case): the output of a call that followed a "$ref" was resolved
\* again.
ResolvedTwice ==
    pass = 2 /\ status = "returned" /\ loaded # <<>>

(***************************************************************************)
(* Properties of the compiler.                                             *)
(***************************************************************************)
\* C10: after a process_file call, a file that was at the output path is
\* unchanged and one more notice names it when "_update" is absent or false;
\* it holds the rendered content when "_update" is set; a path that held
\* nothing holds the rendered content.  And while no call had "_update"
\* set, every output file holds what it first held.
ExistingOutputsPreserved ==
    /\ lastCall.set =>
        /\ is_file(lastCall.before)
              /\ (~lastCall.given \/ lastCall.update = Bool(FALSE))
           => /\ outFiles[lastCall.filepath] = lastCall.before
              /\ notices = Append(lastCall.notices, lastCall.filepath)
        /\ is_file(lastCall.before) /\ lastCall.given /\ Truthy(lastCall.update)
           => outFiles[lastCall.filepath] = FileEntry(lastCall.content)
        /\ lastCall.before = NoEntry
           => outFiles[lastCall.filepath] = FileEntry(lastCall.content)
    /\ lastCall.plain =>
        \A p \in OutPaths : firstWrite[p] # NoEntry => outFiles[p] = firstWrite[p]

\* C10 (the case): a file written by an earlier call was at the path of a
\* later call without "_update" that rendered something else.
ExistingFileIgnored ==
    /\ lastCall.set /\ lastCall.plain
    /\ lastCall.outcome = "ignored"
    /\ lastCall.before # OldFile
    /\ lastCall.before # FileEntry(lastCall.content)


\* ---------------------------------------------------------------------------
\* Batch mode.

\* C11: process_files renders the template once per element of the iteration
\* source named by "_iter" (after the optional "_iter_filter") with the
\* element bound to "_"; it creates as many files as it rendered distinct
\* names when none of them existed before; and it creates none and completes
\* normally when the source is empty or the context names no source.
BatchRendersPerElement ==
    LET Created == {p \in OutPaths : ~is_file(lastBatch.before[p]) /\ is_file(outFiles[p])}
        Rendered == {lastBatch.calls[i].filepath : i \in DOMAIN lastBatch.calls}
        Looped == lastBatch.outcome \in {"done", "IsADirectoryError"}
    IN  lastBatch.set =>
        /\ lastBatch.outcome = "done" =>
            /\ Len(lastBatch.calls) = Len(lastBatch.elements)
            /\ \A i \in DOMAIN lastBatch.calls :
                /\ lastBatch.calls[i].elem = lastBatch.elements[i]
                /\ lastBatch.calls[i].bound = lastBatch.elements[i]
        /\ (Looped /\ \A p \in Rendered : lastBatch.before[p] = NoEntry) =>
            /\ lastBatch.outcome = "done"
            /\ Cardinality(Created) = Cardinality(Rendered)
        /\ (Looped /\ lastBatch.elements = <<>>) =>
            lastBatch.outcome = "done" /\ Created = {}
        /\ ~lastBatch.named =>
            lastBatch.outcome = "done" /\ Created = {}

\* The same, for the calls whose context names an iteration source.
BatchRendersPerNamedElement ==
    (lastBatch.set /\ lastBatch.named) => BatchRendersPerElement

\* A batch of two elements with one name created one file, the filter having
\* kept one element of two.
BatchCreatedFiles ==
    /\ lastBatch.set
    /\ lastBatch.outcome = "done"
    /\ "_iter_filter" \in DOMAIN lastBatch.schemas
    /\ Len(lastBatch.elements) = 1
    /\ Len(or_empty(lastBatch.schemas["apis"])) = 2
    /\ Cardinality({p \in OutPaths : ~is_file(lastBatch.before[p]) /\ is_file(outFiles[p])}) = 1

\* A batch call whose context names no iteration source.
BatchWithoutSource == lastBatch.set /\ ~lastBatch.named


\* ---------------------------------------------------------------------------
\* The command line.

\* C12: starting with no configuration file, config --show displays the
\* empty mapping; after any config --set invocations, the stored mapping and
\* the one config --show displays hold, for every key ever set, the value of
\* its most recent set, and no other key; an invocation without --set leaves
\* the stored mapping as it was.
ConfigPersistence ==
    LET Stored(file) == IF file.kind = "file" THEN file.m ELSE NoSchema
    IN
    /\ Stored(configFile) = cli.latest
    /\ (cli.cmd = "config" /\ cli.outcome = "done") =>
        /\ cli.shown # <<>> => cli.shown[1] = cli.latest
        /\ ~cli.set => cli.shown # <<>> /\ Stored(configFile) = Stored(cli.before)

\* A third invocation displays two keys set by the two before it, one of
\* them set twice.
ShownAfterSets ==
    /\ cli.cmd = "config" /\ cli.n = 3 /\ ~cli.set /\ cli.show
    /\ cli.shown = <<("template_dir" :> Str("tpl")) @@ ("k" :> Str("v"))>>
    /\ cli.before = ConfigOf(cli.shown[1])

\* C15: a config --set invocation with an item that does not split into a
\* key and a value fails, and the stored mapping is the one before the
\* invocation, the well-formed items before the malformed one included.
FailedSetKeepsConfig ==
    LET Stored(file) == IF file.kind = "file" THEN file.m ELSE NoSchema
    IN
    (cli.cmd = "config" /\ cli.set
        /\ \E i \in DOMAIN cli.items : Len(cli.items[i]) # 2) =>
            /\ cli.outcome = "ValueError"
            /\ Stored(configFile) = Stored(cli.before)

\* An invocation failed at its second item, the first being a well-formed
\* item of a key the file did not hold.
SetFailedAfterGoodItem ==
    /\ cli.cmd = "config" /\ cli.outcome = "ValueError"
    /\ cli.items = <<<<"k", "v">>, <<"k", "v", "w">>>>
    /\ cli.before = ConfigOf("template_dir" :> Str("tpl"))
    /\ configFile = cli.before


\* C13: when the configured template_dir does not exist, and when no
\* template_dir is configured, new reports that the template directory does
\* not exist or is not configured, does not report success, creates no
\* output directory and renders or copies no file.
NewWithoutTemplateDir ==
    (cli.cmd = "new" /\ cli.phase = "idle"
        /\ (~cli.configured \/ cli.template_dir \notin TemplateDirs)) =>
            /\ cli.msgs = <<NoTemplateDir>>
            /\ disk = cli.before.disk
            /\ outFiles = cli.before.outFiles

\* The same, for a configured template_dir that does not exist.
NewWithMissingTemplateDir ==
    (cli.cmd = "new" /\ cli.configured) => NewWithoutTemplateDir

\* new was run with an output directory to make and a configured
\* template_dir that does not exist.
NewStoppedAtTemplateDir ==
    /\ cli.cmd = "new" /\ cli.phase = "idle"
    /\ cli.configured /\ cli.template_dir = "missing"
    /\ cli.output = "out" /\ disk.dirs = {}
    /\ cli.msgs = <<NoTemplateDir>>

\* new was run with no template_dir configured.
NewUnconfigured == cli.cmd = "new" /\ cli.phase = "idle" /\ ~cli.configured

\* C14: the context a template file is rendered with holds, for each key,
\* the value of the file's associated .schema if that has the key, else the
\* value of the resolved root schema.schema if that has the key, else the
\* -d value, each as a whole, and no key from another file's .schema.
ContextPrecedence ==
    (cli.cmd = "new" /\ "used" \in DOMAIN cli) =>
        \A j \in DOMAIN cli.used :
            LET assoc == cli.used[j].file.schema
                schemas == cli.used[j].schemas
            IN  /\ DOMAIN schemas = DOMAIN assoc \cup DOMAIN cli.root \cup DOMAIN cli.data
                /\ \A key \in DOMAIN schemas :
                    schemas[key] = IF key \in DOMAIN assoc THEN assoc[key]
                                   ELSE IF key \in DOMAIN cli.root THEN cli.root[key]
                                   ELSE cli.data[key]

\* A file whose .schema gives "z" and "system" was rendered before one
\* without a .schema; the root schema.schema and -d both give "z".
SecondFileRendered ==
    /\ cli.cmd = "new" /\ "used" \in DOMAIN cli
    /\ Len(cli.used) >= 2
    /\ cli.used[1].file.schema = AssocZ
    /\ "z" \in DOMAIN cli.root /\ "z" \in DOMAIN cli.data
    /\ cli.used[1].schemas["z"] = Map("m" :> Str("assoc"))
    /\ cli.used[2].schemas["z"] = cli.root["z"]
    /\ outFiles[<<"a", ".txt">>] = FileEntry(<<"V", "assoc">>)
    /\ outFiles[<<"b", ".txt">>] = FileEntry(<<"V", "remote", "centos">>)

====
